---- MODULE Spec2Model ----
(***************************************************************************)
(* Model of ollama_review: the review pipeline of cmd/review.go (function  *)
(* extraction, per-chunk dispatch, directory walk, report write), the      *)
(* command entry point (rootCmd / ensureModel) and the UsersHandler of     *)
(* handlers/users_handler.go.                                              *)
(***************************************************************************)
EXTENDS Naturals, Integers, Sequences, FiniteSets, TLC

VARIABLES
    repoRoot,    \* Review's repoRoot argument (one path component)
    ignoreDirs,  \* set of excluded directory base names (viper "exclude")
    present,     \* the directory tree below the root: a set of relative paths
    pc,          \* position of the command: main, walk, chunks, returned, exit
    stack,       \* entries filepath.WalkDir still has to visit, next first
    curFile,     \* the file whose chunks are being reviewed (relative path)
    chunks,      \* chunks extracted from curFile
    idx,         \* loop variable i of the chunk loop (0-based)
    report,      \* Review's report slice
    visited,     \* every call of walkFn: the entry and the error it was given
    readLog,     \* every os.ReadFile call: the file and what came of it
    calls,       \* every reviewChunk call: file, index, total, whether the
                 \* template rendered, what the chat call did, and whether
                 \* it failed with fragments delivered
    writes,      \* every os.WriteFile call on the output path
    retErr,      \* the error the command last got back ("nil" when none)
    exitCode,    \* process exit status (-1 while running)
    hostOK,      \* whether the configured OllamaHost parses as a URL
    parsed,      \* the syntax tree the parser returned for the file at hand
    nodeType,    \* the nodeType argument extractFunctions was given for it
    mu,          \* UsersHandler.mu: 0 when free, else the holder
    nextID,      \* UsersHandler.nextID
    users,       \* UsersHandler.users: a function from IDs to User records
    upc,         \* position of each HTTP request goroutine
    ureq,        \* the request each goroutine serves: method and body
    uinput,      \* decoded input.Name of each POST
    uid,         \* local variable id of each createUser
    resp         \* response written for each request

vars == <<repoRoot, ignoreDirs, present, pc, stack, curFile, chunks, idx,
          report, visited, readLog, calls, writes, retErr, exitCode, hostOK,
          parsed, nodeType,
          mu, nextID, users, upc, ureq, uinput, uid, resp>>

reviewVars == <<repoRoot, ignoreDirs, present, pc, stack, curFile, chunks, idx,
                report, visited, readLog, calls, writes, retErr, exitCode,
                hostOK, parsed, nodeType>>

userVars == <<mu, nextID, users, upc, ureq, uinput, uid, resp>>

----
(* Bounds *)

\* number of fragments the chat collaborator delivers for a complete answer
MaxFrags == 2

\* number of concurrent HTTP requests against one UsersHandler
MaxReqs == 3

\* number of nodes of the syntax trees extractFunctions is checked on
MaxNodes == 4

----
(* Syntax trees and extractFunctions *)

Last(s) == s[Len(s)]

\* langConfig: extension -> node type of a function (the grammar itself is
\* the parser collaborator's business)
langConfig ==
    [e \in {".py", ".java", ".cpp", ".hpp", ".h", ".go"} |->
        CASE e = ".py"   -> "function_definition"
          [] e = ".java" -> "method_declaration"
          [] e = ".cpp"  -> "function_definition"
          [] e = ".hpp"  -> "function_definition"
          [] e = ".h"    -> "function_definition"
          [] e = ".go"   -> "function_declaration"]

\* A parsed file: src is the byte sequence, nodes the syntax tree, node 1 the
\* root.  Each node has a type, a named flag, a byte span and its children in
\* document order.
Node(t, nm, s, e, ch) == [type |-> t, named |-> nm, start |-> s, end |-> e, kids |-> ch]

\* no function at all: a comment only
TreeEmpty ==
    [src   |-> <<10, 11, 12>>,
     nodes |-> <<Node("source_file", TRUE, 0, 3, <<2>>),
                 Node("comment", TRUE, 0, 3, <<>>)>>]

\* one top-level function
TreeOne ==
    [src   |-> <<10, 20, 21, 22, 11>>,
     nodes |-> <<Node("source_file", TRUE, 0, 5, <<2, 3>>),
                 Node("comment", TRUE, 0, 1, <<>>),
                 Node("function_declaration", TRUE, 1, 4, <<>>)>>]

\* two top-level functions separated by an anonymous token
TreeTwo ==
    [src   |-> <<20, 21, 59, 30, 31, 32>>,
     nodes |-> <<Node("source_file", TRUE, 0, 6, <<2, 3, 4>>),
                 Node("function_declaration", TRUE, 0, 2, <<>>),
                 Node(";", FALSE, 2, 3, <<>>),
                 Node("function_declaration", TRUE, 3, 6, <<>>)>>]

\* a function nested in the body of another function
TreeNested ==
    [src   |-> <<20, 40, 30, 31, 41, 21>>,
     nodes |-> <<Node("source_file", TRUE, 0, 6, <<2>>),
                 Node("function_declaration", TRUE, 0, 6, <<3>>),
                 Node("block", TRUE, 1, 5, <<4>>),
                 Node("function_declaration", TRUE, 2, 4, <<>>)>>]

\* a function, and a function-typed node that hangs below an anonymous node
\* and so is not reachable through named children
TreeHidden ==
    [src   |-> <<20, 21, 50, 30, 31>>,
     nodes |-> <<Node("source_file", TRUE, 0, 5, <<2, 3>>),
                 Node("function_declaration", TRUE, 0, 2, <<>>),
                 Node("alias", FALSE, 2, 5, <<4>>),
                 Node("function_declaration", TRUE, 3, 5, <<>>)>>]

\* a method of another language's tag: nothing matches function_declaration
TreeOther ==
    [src   |-> <<60, 61>>,
     nodes |-> <<Node("source_file", TRUE, 0, 2, <<2>>),
                 Node("method_declaration", TRUE, 0, 2, <<>>)>>]

\* the only function-typed node hangs below an anonymous node
TreeHiddenOnly ==
    [src   |-> <<50, 30, 31>>,
     nodes |-> <<Node("source_file", TRUE, 0, 3, <<2>>),
                 Node("alias", FALSE, 0, 3, <<3>>),
                 Node("function_declaration", TRUE, 1, 3, <<>>)>>]

Trees ==
    {TreeEmpty, TreeOne, TreeTwo, TreeNested, TreeHidden, TreeOther,
     TreeHiddenOnly}

\* n.NamedChild(0) followed by NextNamedSibling: the named children in order
NamedChildren(t, n) ==
    SelectSeq(t.nodes[n].kids, LAMBDA c : t.nodes[c].named)

\* src[n.StartByte():n.EndByte()]
Slice(src, s, e) == SubSeq(src, s + 1, e)

RECURSIVE walk(_, _, _)
RECURSIVE walkKids(_, _, _)
\* the closure walk of extractFunctions: the chunks appended while visiting n
walk(t, tag, n) ==
    (IF t.nodes[n].type = tag
        THEN <<Slice(t.src, t.nodes[n].start, t.nodes[n].end)>>
        ELSE <<>>)
    \o walkKids(t, tag, NamedChildren(t, n))

walkKids(t, tag, cs) ==
    IF cs = <<>> THEN <<>>
    ELSE walk(t, tag, Head(cs)) \o walkKids(t, tag, Tail(cs))

RECURSIVE walkStop(_, _, _)
RECURSIVE walkStopKids(_, _, _)
\* a walk that does not descend below a matching node
walkStop(t, tag, n) ==
    IF t.nodes[n].type = tag
        THEN <<Slice(t.src, t.nodes[n].start, t.nodes[n].end)>>
        ELSE walkStopKids(t, tag, NamedChildren(t, n))

walkStopKids(t, tag, cs) ==
    IF cs = <<>> THEN <<>>
    ELSE walkStop(t, tag, Head(cs)) \o walkStopKids(t, tag, Tail(cs))

\* extractFunctions without the chunks of nested functions
extractOutermost(t, tag) == walkStop(t, tag, 1)

RECURSIVE walkAll(_, _, _)
RECURSIVE walkAllKids(_, _, _)
\* a walk over Child(i) instead of NamedChild/NextNamedSibling
walkAll(t, tag, n) ==
    (IF t.nodes[n].type = tag
        THEN <<Slice(t.src, t.nodes[n].start, t.nodes[n].end)>>
        ELSE <<>>)
    \o walkAllKids(t, tag, t.nodes[n].kids)

walkAllKids(t, tag, cs) ==
    IF cs = <<>> THEN <<>>
    ELSE walkAll(t, tag, Head(cs)) \o walkAllKids(t, tag, Tail(cs))

\* extractFunctions that also walks anonymous children
extractAllChildren(t, tag) == walkAll(t, tag, 1)

RECURSIVE walkPost(_, _, _)
RECURSIVE walkPostKids(_, _, _)
\* a walk that appends a node's chunk after the chunks of its children
walkPost(t, tag, n) ==
    walkPostKids(t, tag, NamedChildren(t, n))
    \o (IF t.nodes[n].type = tag
           THEN <<Slice(t.src, t.nodes[n].start, t.nodes[n].end)>>
           ELSE <<>>)

walkPostKids(t, tag, cs) ==
    IF cs = <<>> THEN <<>>
    ELSE walkPost(t, tag, Head(cs)) \o walkPostKids(t, tag, Tail(cs))

\* extractFunctions with the append moved behind the loop over the children
extractPostOrder(t, tag) == walkPost(t, tag, 1)

\* extractFunctions(src, lang, nodeType) for a source that parsed to tree t
extractFunctions(t, tag) == walk(t, tag, 1)

----
(* The syntax trees extractFunctions is checked on: every tree of at most  *)
(* MaxNodes nodes.  Node k > 1 hangs below node par[k] < k, children stand *)
(* in the order of their numbers, and a node's bytes are one byte of its   *)
(* own followed by the bytes of its children.                              *)

Shapes(n) == [2..n -> 1..(n - 1)]

RECURSIVE Below(_, _, _)
\* d is k or a descendant of k
Below(par, k, d) ==
    IF d = k THEN TRUE
    ELSE IF d < k \/ d = 1 THEN FALSE
    ELSE Below(par, k, par[d])

WellShaped(n, par) == \A k \in 2..n : par[k] < k

SizeOf(n, par, k) == Cardinality({d \in 1..n : Below(par, k, d)})

RECURSIVE StartOf(_, _, _)
StartOf(n, par, k) ==
    IF k = 1 THEN 0
    ELSE StartOf(n, par, par[k]) + 1
         + Cardinality({d \in 1..n :
                \E c \in 2..n : par[c] = par[k] /\ c < k /\ Below(par, c, d)})

KidsOf(n, par, k) ==
    SelectSeq([i \in 1..n |-> i], LAMBDA c : c > 1 /\ par[c] = k)

GenTree(n, par, ty, nm) ==
    [src   |-> [i \in 1..n |-> 100 + i],
     nodes |-> [k \in 1..n |->
                  Node(ty[k], IF k = 1 THEN TRUE ELSE nm[k],
                       StartOf(n, par, k),
                       StartOf(n, par, k) + SizeOf(n, par, k),
                       KidsOf(n, par, k))]]

GenTrees ==
    UNION {{GenTree(n, par, ty, nm) :
               par \in {q \in Shapes(n) : WellShaped(n, q)},
               ty \in [1..n -> {"function_declaration", "block"}],
               nm \in [2..n -> BOOLEAN]} : n \in 1..MaxNodes}

----
(* The directory tree that filepath.WalkDir walks *)

\* every entry name the model knows, in the lexical order os.ReadDir sorts by
Names == <<"a.go", "lib", "vendor", "w.txt">>

\* the largest tree: relative paths below the root, as sequences of names
Universe ==
    { <<"lib">>, <<"lib", "a.go">>, <<"lib", "vendor">>,
      <<"lib", "vendor", "a.go">>, <<"lib", "w.txt">>,
      <<"vendor">>, <<"vendor", "a.go">> }

DirNames == {"lib", "vendor"}

Parent(p) == SubSeq(p, 1, Len(p) - 1)

\* the trees the walk may meet: subsets of Universe closed under Parent
DirTrees ==
    { S \in SUBSET Universe : \A p \in S : Len(p) > 1 => Parent(p) \in S }

\* the root paths Review may be given: directories named by one component
Roots == {".", "vendor"}

\* the exclusion lists the configuration may hold
IgnoreSets == {{}, {"lib"}, {"vendor"}, {".", "vendor"}, {"lib", "vendor"}}

\* d.IsDir(): the root and the entries with a directory name
IsDir(p) == IF p = <<>> THEN TRUE ELSE Last(p) \in DirNames

\* filepath.Ext of an entry name
Ext(name) ==
    CASE name = "a.go"  -> ".go"
      [] name = "w.txt" -> ".txt"
      [] OTHER          -> ""

\* strings.TrimPrefix(ext, ".")
TrimDot(ext) ==
    CASE ext = ".go"  -> "go"
      [] ext = ".txt" -> "txt"
      [] OTHER        -> ext

\* the path WalkDir hands to walkFn: filepath.Join(root, names...), which
\* drops a leading "." component
Join(root, p) ==
    IF p = <<>> THEN <<root>>
    ELSE IF root = "." THEN p ELSE <<root>> \o p

\* d.Name(): the base name; for the root the base name of the root path
BaseName(root, p) == IF p = <<>> THEN root ELSE Last(p)

\* os.ReadDir(p): the entries of directory p sorted by name
ReadDir(tree, p) ==
    SelectSeq([i \in 1..Len(Names) |-> Append(p, Names[i])],
              LAMBDA c : c \in tree)

\* rootDir := "."
rootDir == <<".">>

\* a skip test on the path below the root instead of the base name: it
\* matches top-level directories only
SkipsDirByPath(ignore, root, p) ==
    Len(p) = 1 /\ p[1] \in ignore /\ Join(root, p) # rootDir

\* the test of walkFn that returns fs.SkipDir for a directory
SkipsDir(ignore, root, p) ==
    BaseName(root, p) \in ignore /\ Join(root, p) # rootDir

----
(* reviewChunk and its collaborators *)

\* the complete answer of the chat collaborator, fragment by fragment
ChatResponse == [j \in 1..MaxFrags |-> <<100 + j>>]

RECURSIVE Concat(_)
\* outBuf.WriteString for each fragment in arrival order
Concat(frags) ==
    IF frags = <<>> THEN <<>> ELSE Head(frags) \o Concat(Tail(frags))

\* buildPrompt: tmpl is what the template collaborator does ("ok", or the
\* error of ParseFiles or Execute)
buildPrompt(tmpl, lang, code) ==
    IF tmpl = "ok"
        THEN [prompt |-> <<lang, code>>, err |-> "nil"]
        ELSE [prompt |-> <<>>, err |-> tmpl]

\* a reviewChunk that drops the error of client.Chat
reviewChunkNoChatErr(tmpl, lang, code, delivered, chatErr) ==
    LET p == buildPrompt(tmpl, lang, code) IN
    IF p.err # "nil"
        THEN [res |-> <<>>, err |-> p.err, chat |-> FALSE]
        ELSE [res |-> Concat(delivered), err |-> "nil", chat |-> TRUE]

\* a reviewChunk that goes on to client.Chat with an empty prompt when
\* buildPrompt failed
reviewChunkChatAnyway(tmpl, lang, code, delivered, chatErr) ==
    LET outBuf == Concat(delivered) IN
    IF chatErr
       THEN [res |-> <<>>, err |-> "chat", chat |-> TRUE]
       ELSE [res |-> outBuf, err |-> "nil", chat |-> TRUE]

\* reviewChunk: delivered are the fragments the chat callback received,
\* chatErr whether client.Chat returned an error.  chat tells whether
\* client.Chat was called at all.
reviewChunk(tmpl, lang, code, delivered, chatErr) ==
    LET p == buildPrompt(tmpl, lang, code) IN
    IF p.err # "nil"
        THEN [res |-> <<>>, err |-> p.err, chat |-> FALSE]
        ELSE LET outBuf == Concat(delivered) IN
             IF chatErr
                THEN [res |-> <<>>, err |-> "chat", chat |-> TRUE]
                ELSE [res |-> outBuf, err |-> "nil", chat |-> TRUE]

\* fmt.Sprintf("## %s (chunk %d/%d)\n\n%s\n\n---\n", path, i+1, len(chunks), res)
Section(path, i, n, res) == [path |-> path, index |-> i, total |-> n, res |-> res]

\* []byte("# Code Review Report\n\n" + strings.Join(report, ""))
Document(rep) == <<"# Code Review Report">> \o rep

----
(* ensureModel *)

\* what the configuration, the backend and the user answer to ensureModel
EnsureEnvs ==
    [model : {"", "m"}, listOK : BOOLEAN, has : BOOLEAN,
     ans : {"y", "n"}, pullOK : BOOLEAN]

ensureModel(host, env) ==
    IF env.model = "" THEN "model is not specified"
    ELSE IF ~host THEN "parse OllamaHost"
    ELSE IF ~env.listOK THEN "list models"
    ELSE IF env.has THEN "nil"
    ELSE IF env.ans # "y" THEN "required model not available"
    ELSE IF ~env.pullOK THEN "pull model"
    ELSE "nil"

----
(* The command: rootCmd.Run, Review, walkFn *)

\* what one run is given and never changes
config == <<repoRoot, ignoreDirs, present, hostOK>>

ReviewInit ==
    /\ repoRoot \in Roots
    /\ ignoreDirs \in IgnoreSets
    /\ present \in DirTrees
    /\ hostOK \in BOOLEAN
    /\ parsed = TreeEmpty
    /\ nodeType = ""
    /\ pc = "main"
    /\ stack = <<>>
    /\ curFile = <<>>
    /\ chunks = <<>>
    /\ idx = 0
    /\ report = <<>>
    /\ visited = <<>>
    /\ readLog = <<>>
    /\ calls = <<>>
    /\ writes = <<>>
    /\ retErr = "nil"
    /\ exitCode = -1

\* a CheckErr that lets the command go on after an error
CheckErrIgnored(err) ==
    /\ exitCode' = 0
    /\ pc' = "exit"

\* cobra.CheckErr(err) with a non-nil error: print it and os.Exit(1)
CheckErr(err) ==
    /\ exitCode' = 1
    /\ pc' = "exit"

\* rootCmd.Run, first statement: cobra.CheckErr(ensureModel())
EnsureModel ==
    /\ pc = "main"
    /\ \E env \in EnsureEnvs :
         LET err == ensureModel(hostOK, env) IN
         /\ retErr' = err
         /\ IF err # "nil"
               THEN CheckErr(err)
               ELSE /\ pc' = "review"
                    /\ UNCHANGED exitCode
    /\ UNCHANGED <<config, parsed, nodeType, stack, curFile, chunks, idx, report, visited,
                   readLog, calls, writes>>
    /\ UNCHANGED userVars

\* a walkFn that swallows the error it is given
walkFnErrSwallowed(err) == "nil"

\* walkFn, first statement: if err != nil { return err }
walkFnErr(err) == err

\* Review up to the first step of filepath.WalkDir: os.Lstat(root).  When it
\* fails WalkDir calls walkFn(root, nil, err) and returns what walkFn returns.
StartWalk ==
    /\ pc = "review"
    /\ \E lstatOK \in BOOLEAN :
         IF lstatOK
            THEN /\ stack' = << <<>> >>
                 /\ pc' = "walk"
                 /\ UNCHANGED <<retErr, visited>>
            ELSE /\ visited' = Append(visited, [path |-> <<>>, err |-> "lstat"])
                 /\ UNCHANGED stack
                 /\ IF walkFnErr("lstat") # "nil"
                       THEN /\ retErr' = walkFnErr("lstat")
                            /\ pc' = "returned"
                       ELSE /\ pc' = "walk"
                            /\ UNCHANGED retErr
    /\ UNCHANGED <<config, parsed, nodeType, curFile, chunks, idx, report, readLog, calls,
                   writes, exitCode>>
    /\ UNCHANGED userVars

\* walkDir on a directory: walkFn(path, d, nil); unless that returns SkipDir,
\* os.ReadDir, and walkFn(path, d, err) when ReadDir fails; then the entries
VisitDir ==
    /\ pc = "walk"
    /\ stack # <<>>
    /\ IsDir(Head(stack))
    /\ LET p == Head(stack) IN
       IF SkipsDir(ignoreDirs, repoRoot, p)
          THEN /\ visited' = Append(visited, [path |-> p, err |-> "nil"])
               /\ stack' = Tail(stack)
               /\ UNCHANGED <<pc, retErr>>
          ELSE \E readDirOK \in BOOLEAN :
                 IF readDirOK
                    THEN /\ visited' = Append(visited, [path |-> p, err |-> "nil"])
                         /\ stack' = ReadDir(present, p) \o Tail(stack)
                         /\ UNCHANGED <<pc, retErr>>
                    ELSE /\ visited' = visited \o <<[path |-> p, err |-> "nil"],
                                                    [path |-> p, err |-> "readdir"]>>
                         /\ IF walkFnErr("readdir") # "nil"
                               THEN /\ retErr' = walkFnErr("readdir")
                                    /\ pc' = "returned"
                                    /\ UNCHANGED stack
                               ELSE /\ stack' = Tail(stack)
                                    /\ UNCHANGED <<pc, retErr>>
    /\ UNCHANGED <<config, parsed, nodeType, curFile, chunks, idx, report, readLog, calls,
                   writes, exitCode>>
    /\ UNCHANGED userVars

\* what os.ReadFile and the parser give for one file
FileContents ==
    {[err |-> e, tree |-> TreeEmpty] : e \in {"read error", "parse error"}}
    \cup {[err |-> "nil", tree |-> t] : t \in Trees}

\* the nodes of t that are typed tag and hang below the root through named
\* nodes only, found from each node upwards (readLog notes their number, as
\* a fact about the file, whatever extractFunctions returns)
RECURSIVE NamedPath(_, _)
NamedPath(t, n) ==
    IF n = 1 THEN TRUE
    ELSE LET up == CHOOSE m \in DOMAIN t.nodes :
                      \E j \in DOMAIN t.nodes[m].kids : t.nodes[m].kids[j] = n
         IN t.nodes[n].named /\ NamedPath(t, up)

Matching(t, tag) ==
    {n \in DOMAIN t.nodes : t.nodes[n].type = tag /\ NamedPath(t, n)}

\* walkFn on a file, up to the chunk loop
VisitFile ==
    /\ pc = "walk"
    /\ stack # <<>>
    /\ ~IsDir(Head(stack))
    /\ LET p   == Head(stack)
           ext == Ext(Last(p))
       IN
       /\ visited' = Append(visited, [path |-> p, err |-> "nil"])
       /\ stack' = Tail(stack)
       /\ IF ext \notin DOMAIN langConfig
             THEN UNCHANGED <<pc, retErr, curFile, chunks, idx, readLog, parsed, nodeType>>
             ELSE \E c \in FileContents :
                    /\ readLog' = Append(readLog,
                          [file |-> p, err |-> c.err,
                           matches |-> IF c.err = "nil"
                                          THEN Cardinality(Matching(c.tree, langConfig[ext]))
                                          ELSE 0])
                    /\ IF c.err # "nil"
                          THEN UNCHANGED <<pc, retErr, curFile, chunks, idx, parsed, nodeType>>
                          ELSE LET cs == extractFunctions(c.tree, langConfig[ext]) IN
                               IF Len(cs) = 0
                                  THEN UNCHANGED <<pc, retErr, curFile, chunks, idx, parsed, nodeType>>
                                  ELSE IF ~hostOK
                                     THEN /\ retErr' = "parse OLLAMA_HOST"
                                          /\ pc' = "returned"
                                          /\ UNCHANGED <<curFile, chunks, idx, parsed, nodeType>>
                                     ELSE /\ curFile' = p
                                          /\ chunks' = cs
                                          /\ parsed' = c.tree
                                          /\ nodeType' = langConfig[ext]
                                          /\ idx' = 0
                                          /\ pc' = "chunks"
                                          /\ UNCHANGED retErr
    /\ UNCHANGED <<config, report, calls, writes, exitCode>>
    /\ UNCHANGED userVars

\* what the template and chat collaborators do for one chunk: the template
\* fails, or the chat call fails after k fragments, or it delivers them all
ChunkEnvs ==
    {[tmpl |-> t, k |-> 0, chatErr |-> FALSE] :
        t \in {"parse template", "execute template"}}
    \cup {[tmpl |-> "ok", k |-> k, chatErr |-> TRUE] : k \in 0..MaxFrags}
    \cup {[tmpl |-> "ok", k |-> MaxFrags, chatErr |-> FALSE]}

\* an append that puts the new section first
prependSection(rep, path, i, n, res) == <<Section(path, i, n, res)>> \o rep

\* an append that numbers the sections of a file as they come, 1, 2, ...
appendSectionCounted(rep, path, i, n, res) ==
    Append(rep, Section(path, 1 + Len(SelectSeq(rep, LAMBDA x : x.path = path)),
                        n, res))

\* report = append(report, fmt.Sprintf(...))
appendSection(rep, path, i, n, res) == Append(rep, Section(path, i, n, res))

\* a loop that stays on a chunk whose chat call failed
rangeRetry(i, err) == IF err = "chat" THEN i ELSE i + 1

\* for i, chunk := range chunks: the index after an iteration, whether the
\* body ran to its end or left by continue
rangeNext(i, err) == i + 1

\* one iteration of the chunk loop of walkFn
ReviewChunk ==
    /\ pc = "chunks"
    /\ idx < Len(chunks)
    /\ \E env \in ChunkEnvs :
         LET chunk == chunks[idx + 1]
             lang  == TrimDot(Ext(Last(curFile)))
             r     == reviewChunk(env.tmpl, lang, chunk,
                                  SubSeq(ChatResponse, 1, env.k), env.chatErr)
             next  == rangeNext(idx, r.err)
         IN
         /\ calls' = Append(calls,
                [file |-> curFile, index |-> idx + 1, total |-> Len(chunks),
                 rendered |-> env.tmpl = "ok",
                 chat |-> IF ~r.chat THEN "none"
                          ELSE IF env.chatErr THEN "err" ELSE "ok",
                 partial |-> r.chat /\ env.chatErr /\ env.k > 0])
         /\ report' = IF r.err # "nil"
                         THEN report
                         ELSE appendSection(report, Join(repoRoot, curFile),
                                            idx + 1, Len(chunks), r.res)
         /\ IF next < Len(chunks)
               THEN /\ idx' = next
                    /\ UNCHANGED <<pc, curFile, chunks, parsed, nodeType>>
               ELSE /\ idx' = 0
                    /\ curFile' = <<>>
                    /\ chunks' = <<>>
                    /\ parsed' = TreeEmpty
                    /\ nodeType' = ""
                    /\ pc' = "walk"
    /\ UNCHANGED <<config, stack, visited, readLog, writes, retErr, exitCode>>
    /\ UNCHANGED userVars

\* a Review that does not look at what os.WriteFile returned
writeResultUnchecked(ok) == "nil"

\* if err := os.WriteFile(...); err != nil { return fmt.Errorf("write report: %w", err) }
writeResult(ok) == IF ok THEN "nil" ELSE "write report"

\* WalkDir returned nil: os.WriteFile(outFile, ...) and return
WriteReport ==
    /\ pc = "walk"
    /\ stack = <<>>
    /\ \E writeOK \in BOOLEAN :
         /\ writes' = Append(writes, [data |-> Document(report), ok |-> writeOK])
         /\ retErr' = writeResult(writeOK)
    /\ pc' = "returned"
    /\ UNCHANGED <<config, parsed, nodeType, stack, curFile, chunks, idx, report, visited,
                   readLog, calls, exitCode>>
    /\ UNCHANGED userVars

\* rootCmd.Run, last statement: cobra.CheckErr(Review(...)), then Run and
\* Execute return and the process ends with status 0
ReviewReturned ==
    /\ pc = "returned"
    /\ IF retErr # "nil"
          THEN CheckErr(retErr)
          ELSE /\ exitCode' = 0
               /\ pc' = "exit"
    /\ UNCHANGED <<config, parsed, nodeType, stack, curFile, chunks, idx, report, visited,
                   readLog, calls, writes, retErr>>
    /\ UNCHANGED userVars

----
(* UsersHandler *)

Reqs == 1..MaxReqs

\* request bodies: val is the kind of the first JSON value of the bytes
\* ("syntax" when they do not start with a complete value), obj the members
\* of an object as key/value pairs, and rest says whether other bytes than
\* white space follow the first value
Bodies ==
    {[val |-> "syntax", obj |-> <<>>, rest |-> FALSE],
     [val |-> "null", obj |-> <<>>, rest |-> FALSE],
     [val |-> "array", obj |-> <<>>, rest |-> FALSE],
     [val |-> "object", obj |-> <<>>, rest |-> FALSE],
     [val |-> "object", obj |-> << <<"name", "Alice">> >>, rest |-> TRUE]}
    \cup {[val |-> "object", obj |-> << <<"name", n>> >>, rest |-> FALSE] :
              n \in {"", "Alice", "Bob"}}

\* json.NewDecoder(r.Body).Decode(&input) reads the first JSON value of the
\* body and nothing after it: a syntax error or a value that is neither an
\* object nor null is an error, null leaves input untouched, and input.Name
\* keeps its zero value unless the object has the key "name"
Decode(body) ==
    IF body.val \in {"syntax", "array"}
        THEN [err |-> TRUE, Name |-> ""]
        ELSE LET hit == SelectSeq(body.obj, LAMBDA kv : kv[1] = "name") IN
             [err |-> FALSE, Name |-> IF hit = <<>> THEN "" ELSE hit[Len(hit)][2]]

\* a goroutine that has not been handed a request
NoReq == [method |-> "", body |-> [val |-> "syntax", obj |-> <<>>, rest |-> FALSE]]

User(id, name) == [ID |-> id, Name |-> name]

NoResp == [code |-> 0, user |-> User(0, ""), list |-> <<>>, msg |-> ""]

\* http.Error(w, msg, code)
HttpError(msg, code) == [NoResp EXCEPT !.code = code, !.msg = msg]

\* NewUsersHandler
UsersInit ==
    /\ mu = 0
    /\ nextID = 1
    /\ users = << >>
    /\ upc = [p \in Reqs |-> "new"]
    /\ ureq = [p \in Reqs |-> NoReq]
    /\ uinput = [p \in Reqs |-> ""]
    /\ uid = [p \in Reqs |-> 0]
    /\ resp = [p \in Reqs |-> NoResp]

\* a Lock that never waits, as if the handler had no mutex
CanLockAlways(m, p) == TRUE

\* h.mu.Lock() can return for goroutine p
CanLock(m, p) == m = 0

\* ServeHTTP for a new request, and createUser up to h.mu.Lock()
ServeHTTP(p) ==
    /\ upc[p] = "new"
    /\ \E method \in {"GET", "POST", "PUT"}, body \in Bodies :
         /\ method # "POST" => body = NoReq.body
         /\ ureq' = [ureq EXCEPT ![p] = [method |-> method, body |-> body]]
         /\ CASE method = "GET" ->
                /\ upc' = [upc EXCEPT ![p] = "list_lock"]
                /\ UNCHANGED <<resp, uinput>>
           [] method = "POST" ->
                  LET d == Decode(body) IN
                  IF d.err
                     THEN /\ resp' = [resp EXCEPT ![p] = HttpError("invalid json", 400)]
                          /\ upc' = [upc EXCEPT ![p] = "done"]
                          /\ UNCHANGED uinput
                     ELSE IF d.Name = ""
                        THEN /\ resp' = [resp EXCEPT ![p] = HttpError("name is required", 400)]
                             /\ upc' = [upc EXCEPT ![p] = "done"]
                             /\ UNCHANGED uinput
                        ELSE /\ uinput' = [uinput EXCEPT ![p] = d.Name]
                             /\ upc' = [upc EXCEPT ![p] = "create_lock"]
                             /\ UNCHANGED resp
           [] OTHER ->
                /\ resp' = [resp EXCEPT ![p] = HttpError("method not allowed", 405)]
                /\ upc' = [upc EXCEPT ![p] = "done"]
                /\ UNCHANGED uinput
    /\ UNCHANGED <<mu, nextID, users, uid>>
    /\ UNCHANGED reviewVars

\* createUser: h.mu.Lock()
CreateLock(p) ==
    /\ upc[p] = "create_lock"
    /\ CanLock(mu, p)
    /\ mu' = p
    /\ upc' = [upc EXCEPT ![p] = "create_id"]
    /\ UNCHANGED <<nextID, users, ureq, uinput, uid, resp>>
    /\ UNCHANGED reviewVars

\* createUser: id := h.nextID
CreateReadID(p) ==
    /\ upc[p] = "create_id"
    /\ uid' = [uid EXCEPT ![p] = nextID]
    /\ upc' = [upc EXCEPT ![p] = "create_inc"]
    /\ UNCHANGED <<mu, nextID, users, ureq, uinput, resp>>
    /\ UNCHANGED reviewVars

\* createUser: h.nextID++
CreateInc(p) ==
    /\ upc[p] = "create_inc"
    /\ nextID' = nextID + 1
    /\ upc' = [upc EXCEPT ![p] = "create_store"]
    /\ UNCHANGED <<mu, users, ureq, uinput, uid, resp>>
    /\ UNCHANGED reviewVars

\* createUser: user := User{ID: id, Name: input.Name}; h.users[id] = user;
\* h.mu.Unlock()
CreateStore(p) ==
    /\ upc[p] = "create_store"
    /\ users' = [i \in (DOMAIN users) \cup {uid[p]} |->
                    IF i = uid[p] THEN User(uid[p], uinput[p]) ELSE users[i]]
    /\ mu' = 0
    /\ upc' = [upc EXCEPT ![p] = "create_resp"]
    /\ UNCHANGED <<nextID, ureq, uinput, uid, resp>>
    /\ UNCHANGED reviewVars

\* createUser: w.WriteHeader(http.StatusCreated); Encode(user)
CreateRespond(p) ==
    /\ upc[p] = "create_resp"
    /\ resp' = [resp EXCEPT ![p] =
                  [NoResp EXCEPT !.code = 201, !.user = User(uid[p], uinput[p])]]
    /\ upc' = [upc EXCEPT ![p] = "done"]
    /\ UNCHANGED <<mu, nextID, users, ureq, uinput, uid>>
    /\ UNCHANGED reviewVars

\* listUsers: h.mu.Lock()
ListLock(p) ==
    /\ upc[p] = "list_lock"
    /\ CanLock(mu, p)
    /\ mu' = p
    /\ upc' = [upc EXCEPT ![p] = "list_body"]
    /\ UNCHANGED <<nextID, users, ureq, uinput, uid, resp>>
    /\ UNCHANGED reviewVars

\* the orders in which ranging over the map h.users may yield its keys
RangeOrders(m) ==
    {o \in [1..Cardinality(DOMAIN m) -> DOMAIN m] :
        \A a, b \in DOMAIN o : a # b => o[a] # o[b]}

\* listUsers: range over h.users, Encode(list), deferred h.mu.Unlock()
ListBody(p) ==
    /\ upc[p] = "list_body"
    /\ \E o \in RangeOrders(users) :
         resp' = [resp EXCEPT ![p] =
                    [NoResp EXCEPT !.code = 200,
                                   !.list = [j \in DOMAIN o |-> users[o[j]]]]]
    /\ mu' = 0
    /\ upc' = [upc EXCEPT ![p] = "done"]
    /\ UNCHANGED <<nextID, users, ureq, uinput, uid>>
    /\ UNCHANGED reviewVars

----
(* Specifications *)

\* the command on one directory tree; the handler is idle
Init == ReviewInit /\ UsersInit

Next ==
    \/ EnsureModel
    \/ StartWalk
    \/ VisitDir
    \/ VisitFile
    \/ ReviewChunk
    \/ WriteReport
    \/ ReviewReturned

Spec == Init /\ [][Next]_vars

\* one UsersHandler serving MaxReqs concurrent requests; the command is not run
UsersSpecInit ==
    /\ UsersInit
    /\ repoRoot = "."
    /\ ignoreDirs = {}
    /\ present = {}
    /\ hostOK = TRUE
    /\ parsed = TreeEmpty
    /\ nodeType = ""
    /\ pc = "main"
    /\ stack = <<>>
    /\ curFile = <<>>
    /\ chunks = <<>>
    /\ idx = 0
    /\ report = <<>>
    /\ visited = <<>>
    /\ readLog = <<>>
    /\ calls = <<>>
    /\ writes = <<>>
    /\ retErr = "nil"
    /\ exitCode = -1

UsersNext ==
    \E p \in Reqs :
        \/ ServeHTTP(p)
        \/ CreateLock(p)
        \/ CreateReadID(p)
        \/ CreateInc(p)
        \/ CreateStore(p)
        \/ CreateRespond(p)
        \/ ListLock(p)
        \/ ListBody(p)

UsersSpec == UsersSpecInit /\ [][UsersNext]_vars

\* extractFunctions alone, on every tree of GenTrees and two node types
ExtractInit ==
    /\ UsersInit
    /\ parsed \in GenTrees
    /\ nodeType \in {"function_declaration", "method_declaration"}
    /\ repoRoot = "."
    /\ ignoreDirs = {}
    /\ present = {}
    /\ hostOK = TRUE
    /\ pc = "extract"
    /\ stack = <<>>
    /\ curFile = <<>>
    /\ chunks = <<>>
    /\ idx = 0
    /\ report = <<>>
    /\ visited = <<>>
    /\ readLog = <<>>
    /\ calls = <<>>
    /\ writes = <<>>
    /\ retErr = "nil"
    /\ exitCode = -1

\* one call of extractFunctions: the parser fails, or the tree is walked
Extract ==
    /\ pc = "extract"
    /\ \E parseOK \in BOOLEAN :
         IF parseOK
            THEN /\ chunks' = extractFunctions(parsed, nodeType)
                 /\ UNCHANGED retErr
            ELSE /\ chunks' = <<>>
                 /\ retErr' = "parse source"
    /\ pc' = "extracted"
    /\ UNCHANGED <<config, parsed, nodeType, stack, curFile, idx, report, visited, readLog,
                   calls, writes, exitCode>>
    /\ UNCHANGED userVars

ExtractNext == Extract

ExtractSpec == ExtractInit /\ [][ExtractNext]_vars

----
(* Properties *)

Range(s) == {s[i] : i \in DOMAIN s}

\* position of a name in the lexical order
Rank(name) == CHOOSE i \in DOMAIN Names : Names[i] = name

\* p comes before q when a tree is listed directory by directory, each level
\* in lexical order: p is a proper ancestor of q, or at the first component
\* where they differ p has the smaller name
Less(p, q) ==
    \/ Len(p) < Len(q) /\ SubSeq(q, 1, Len(p)) = p
    \/ \E i \in 1..Len(p) :
         /\ i <= Len(q)
         /\ SubSeq(p, 1, i - 1) = SubSeq(q, 1, i - 1)
         /\ Rank(p[i]) < Rank(q[i])

\* p lies beneath a directory below the root whose base name is excluded
UnderExcluded(p) == \E k \in 1..(Len(p) - 1) : p[k] \in ignoreDirs

\* the walk ended and Review reached its final write
Finished == writes # <<>>

\* the run hit a traversal error
TraversalError == visited # <<>> /\ visited[Len(visited)].err # "nil"

EnsureErrors ==
    {"model is not specified", "parse OllamaHost", "list models",
     "required model not available", "pull model"}

VisitedPaths == {v.path : v \in Range(visited)}

\* the reviewChunk calls the chat collaborator answered completely
OkCalls == SelectSeq(calls, LAMBDA c : c.chat = "ok")

\* the section a successful call must leave in the report
SectionOf(c) ==
    Section(Join(repoRoot, c.file), c.index, c.total, Concat(ChatResponse))

CallsOf(f) == {j \in DOMAIN calls : calls[j].file = f}

\* every file that yielded chunks has had them all dispatched, up to the
\* chunk the loop is at
AllDispatched ==
    \A e \in Range(readLog) :
        (e.err = "nil" /\ e.matches > 0) =>
            Cardinality(CallsOf(e.file)) =
                IF pc = "chunks" /\ curFile = e.file THEN idx ELSE e.matches

\* C1: a chunk whose template or chat call fails (also after fragments were
\* delivered) leaves no section and nothing of its partial text, every
\* successful chunk has its section, the next chunk of the file is dispatched,
\* every file read has all its chunks dispatched, and the run never ends
\* because of a chunk: it ends by the final write, a traversal error or a
\* start-up error only.
C1_ChunkFailureIsolated ==
    /\ \A j \in DOMAIN calls :
         LET c == calls[j] IN
         /\ c.chat # "ok" =>
               \A s \in Range(report) :
                  ~(s.path = Join(repoRoot, c.file) /\ s.index = c.index)
         /\ c.chat = "ok" => SectionOf(c) \in Range(report)
         /\ c.index < c.total =>
               IF j < Len(calls)
                  THEN calls[j + 1].file = c.file /\ calls[j + 1].index = c.index + 1
                  ELSE pc = "chunks" /\ curFile = c.file /\ idx = c.index
    /\ \A s \in Range(report) : s.res = Concat(ChatResponse)
    /\ AllDispatched
    /\ pc \in {"returned", "exit"} =>
          Finished \/ TraversalError \/ retErr \in EnsureErrors

C1_Witness ==
    /\ Finished
    /\ writes[1].ok
    /\ \E j, k, l \in DOMAIN calls :
         /\ j < k /\ k < l
         /\ calls[j].chat = "err" /\ calls[j].partial
         /\ calls[k].file = calls[j].file /\ calls[k].chat = "ok"
         /\ calls[l].file # calls[j].file /\ calls[l].chat = "ok"

\* C2: when Review reaches the final write, the document written holds
\* exactly one section per successful chunk and nothing else, in the order the
\* chunks were produced: files in walk order (lexical within each directory
\* level), chunks of a file by index.
C2_ReportExactAndOrdered ==
    Finished =>
        /\ writes[1].data =
              Document([j \in 1..Len(OkCalls) |-> SectionOf(OkCalls[j])])
        /\ \A i, j \in DOMAIN OkCalls :
              i < j =>
                 \/ Less(OkCalls[i].file, OkCalls[j].file)
                 \/ /\ OkCalls[i].file = OkCalls[j].file
                    /\ OkCalls[i].index < OkCalls[j].index

C2_Witness ==
    /\ Finished
    /\ Len(report) >= 3
    /\ \E c \in Range(calls) : c.chat # "ok"
    /\ \E i, j \in DOMAIN report :
         /\ i < j
         /\ report[i].path = Join(repoRoot, <<"lib", "a.go">>)
         /\ report[j].path = Join(repoRoot, <<"vendor", "a.go">>)
    /\ \E i \in DOMAIN report : report[i].index = 2

\* C3: nothing beneath a directory below the root whose base name is excluded
\* is visited, read, dispatched or reported, at any depth; and when the walk
\* has ended the entries visited are exactly those of the tree without what
\* lies beneath the excluded directories, in walk order, and the files read
\* are the registered ones among them: what a walk of that smaller tree does.
C3_ExcludedSubtreeSkipped ==
    /\ \A v \in Range(visited) : ~UnderExcluded(v.path)
    /\ \A e \in Range(readLog) : ~UnderExcluded(e.file)
    /\ \A c \in Range(calls) : ~UnderExcluded(c.file)
    /\ \A s \in Range(report) :
          \A f \in present : UnderExcluded(f) => s.path # Join(repoRoot, f)
    /\ Finished =>
          /\ VisitedPaths \ {<<>>} =
                IF SkipsDir(ignoreDirs, repoRoot, <<>>)
                   THEN {}
                   ELSE {p \in present : ~UnderExcluded(p)}
          /\ \A i, j \in DOMAIN visited :
                i < j => Less(visited[i].path, visited[j].path)
          /\ {e.file : e \in Range(readLog)} =
                {p \in VisitedPaths : p # <<>> /\ Ext(Last(p)) \in DOMAIN langConfig}

C3_Witness ==
    /\ Finished
    /\ repoRoot = "."
    /\ ignoreDirs = {"vendor"}
    /\ present = Universe
    /\ <<"lib", "w.txt">> \in VisitedPaths
    /\ \E c \in Range(calls) : c.file = <<"lib", "a.go">> /\ c.chat = "ok"

\* C4: the root is never skipped by name match: whatever the root path and
\* the exclusion set, when the walk has ended every file that is not beneath
\* an excluded directory below the root has been visited.
C4_RootNeverSkipped ==
    Finished =>
        \A p \in present : (~IsDir(p) /\ ~UnderExcluded(p)) => p \in VisitedPaths

\* C5: a traversal error given to walkFn ends the run at once: it is the last
\* call of walkFn, Review returns that error, nothing is written, the command
\* exits with status 1; nothing is read or dispatched that was not visited
\* before; and a run that did not get to the final write ended by a traversal
\* error or a start-up error, never by a file or chunk error.
C5_TraversalErrorAborts ==
    /\ \A j \in DOMAIN visited :
         visited[j].err # "nil" =>
            /\ j = Len(visited)
            /\ pc \in {"returned", "exit"}
            /\ retErr = visited[j].err
            /\ writes = <<>>
            /\ pc = "exit" => exitCode = 1
    /\ \A e \in Range(readLog) : e.file \in VisitedPaths
    /\ \A c \in Range(calls) : c.file \in {e.file : e \in Range(readLog)}
    /\ (pc \in {"returned", "exit"} /\ ~Finished) =>
          \/ TraversalError
          \/ retErr \in EnsureErrors \cup {"parse OLLAMA_HOST"}

C5_Witness ==
    /\ pc = "exit"
    /\ TraversalError
    /\ visited[Len(visited)].path = <<"vendor">>
    /\ stack # <<>>
    /\ \E c \in Range(calls) : c.chat = "err"
    /\ \E e \in Range(readLog) : e.err = "read error"

Up(t, n) ==
    CHOOSE m \in DOMAIN t.nodes :
        \E j \in DOMAIN t.nodes[m].kids : t.nodes[m].kids[j] = n

RECURSIVE Inside(_, _, _)
\* node n hangs somewhere below node m
Inside(t, m, n) ==
    IF n = 1 THEN FALSE
    ELSE IF Up(t, n) = m THEN TRUE ELSE Inside(t, m, Up(t, n))

\* C7: extractFunctions returns one chunk per node typed nodeType that is
\* reachable from the root through named children, and no other chunk: the
\* number of chunks is the number of such nodes, nested ones included, and
\* the chunks are, one for one, the bytes [start,end) of those nodes.
C7_OneChunkPerMatchingNode ==
    (pc = "extracted" /\ retErr = "nil") =>
        LET M == Matching(parsed, nodeType) IN
        /\ Len(chunks) = Cardinality(M)
        /\ \E f \in [DOMAIN chunks -> M] :
              /\ \A i, j \in DOMAIN chunks : i # j => f[i] # f[j]
              /\ \A i \in DOMAIN chunks :
                    chunks[i] = Slice(parsed.src, parsed.nodes[f[i]].start,
                                      parsed.nodes[f[i]].end)

C7_Witness ==
    /\ pc = "extracted"
    /\ retErr = "nil"
    /\ Len(chunks) = 2
    /\ \E m, n \in Matching(parsed, nodeType) : Inside(parsed, m, n)
    /\ \E h \in DOMAIN parsed.nodes :
          /\ parsed.nodes[h].type = nodeType
          /\ h \notin Matching(parsed, nodeType)

\* C8: a file with a registered extension whose tree has no matching node is
\* never dispatched and has no section, and it does not end the run: while it
\* is the entry visited last, the walk is still going or has ended by the
\* final write.
C8_ZeroChunkFileSkipped ==
    \A e \in Range(readLog) :
        (e.err = "nil" /\ e.matches = 0) =>
            /\ CallsOf(e.file) = {}
            /\ \A s \in Range(report) : s.path # Join(repoRoot, e.file)
            /\ ~(pc = "chunks" /\ curFile = e.file)
            /\ visited[Len(visited)].path = e.file => (pc = "walk" \/ Finished)

C8_Witness ==
    /\ Finished
    /\ \E i, j \in DOMAIN readLog :
         /\ i < j
         /\ readLog[i].err = "nil" /\ readLog[i].matches = 0
         /\ \E c \in Range(calls) : c.file = readLog[j].file /\ c.chat = "ok"
    /\ report # <<>>

\* C9: the output path is written at most once, only when the walk has ended
\* with every chunk of every file dispatched, with the whole report; and a
\* run of Review that returned nil has written it exactly once, successfully.
C9_SingleFinalWrite ==
    /\ Len(writes) <= 1
    /\ writes # <<>> =>
          /\ pc \in {"returned", "exit"}
          /\ stack = <<>>
          /\ chunks = <<>>
          /\ AllDispatched
          /\ \A e \in Range(visited) : e.err = "nil"
          /\ writes[1].data = Document(report)
    /\ (pc \in {"returned", "exit"} /\ retErr = "nil") =>
          /\ Len(writes) = 1
          /\ writes[1].ok

C9_Witness ==
    /\ pc = "returned"
    /\ retErr = "nil"
    /\ Len(writes) = 1
    /\ Len(report) >= 2
    /\ Len(readLog) >= 3

\* the requests answered with 201
Created == {p \in Reqs : resp[p].code = 201}

\* no createUser is between taking its ID and writing its response
NoCreateInFlight ==
    \A p \in Reqs : upc[p] \notin {"create_id", "create_inc", "create_store", "create_resp"}

C10_Inv ==
    /\ \A p \in Reqs : (upc[p] = "done" /\ uid[p] # 0) => resp[p].code = 201
    /\ \A p \in Created : resp[p].user = User(uid[p], uinput[p])
    /\ \A p, q \in Created : p # q => resp[p].user.ID # resp[q].user.ID
    /\ NoCreateInFlight =>
          /\ {resp[p].user.ID : p \in Created} = 1..Cardinality(Created)
          /\ nextID = Cardinality(Created) + 1
          /\ DOMAIN users = 1..Cardinality(Created)
          /\ \A p \in Created : users[resp[p].user.ID] = resp[p].user
    /\ \A p \in Reqs :
          resp[p].code = 200 =>
             /\ \A i, j \in DOMAIN resp[p].list :
                   i # j => resp[p].list[i] # resp[p].list[j]
             /\ Range(resp[p].list) = {users[i] : i \in 1..Len(resp[p].list)}

C10_ListStep ==
    \A p \in Reqs :
        (upc[p] = "list_body" /\ upc'[p] = "done") =>
            /\ resp'[p].code = 200
            /\ Len(resp'[p].list) = Cardinality(DOMAIN users)
            /\ Range(resp'[p].list) = {users[i] : i \in DOMAIN users}
            /\ DOMAIN users = 1..(nextID - 1)
            /\ nextID = 1 => resp'[p].list = <<>>
            /\ NoCreateInFlight =>
                  Range(resp'[p].list) = {resp[q].user : q \in Created}

\* C10: under any interleaving of POST and GET requests every successful
\* create answers 201 with its own ID, the IDs given are exactly 1..k for k
\* successful creates, starting at 1, a list returns exactly the users stored
\* when it runs, with the names they were created with, which are the k users
\* created when no create is in flight, and none on a new handler.
C10_CreateAndList == [] C10_Inv /\ [][C10_ListStep]_vars

C10_Witness ==
    /\ \A p \in Reqs : upc[p] = "done"
    /\ Cardinality(Created) = 2
    /\ \E p, q \in Created : resp[p].user.Name = "Alice" /\ resp[q].user.Name = "Bob"
    /\ \E p \in Reqs : resp[p].code = 200 /\ Len(resp[p].list) = 2

\* the bytes of the body are one JSON value and white space
ValidJSON(body) == body.val # "syntax" /\ ~body.rest

\* the name a body gives: the value of its "name" member, "" without one
NameOf(body) ==
    LET hit == SelectSeq(body.obj, LAMBDA kv : kv[1] = "name") IN
    IF hit = <<>> THEN "" ELSE hit[Len(hit)][2]

\* the POST requests whose body is not valid JSON or names nobody
Rejectable ==
    {p \in Reqs : /\ ureq[p].method = "POST"
                  /\ (~ValidJSON(ureq[p].body) \/ NameOf(ureq[p].body) = "")}

\* C11: a POST whose body is not valid JSON or whose name is empty is
\* answered 400 and leaves the handler as it was: it takes no ID and stores
\* no user, so that with no create in flight the next ID is one more than the
\* number of creates answered 201.
C11_RejectedPostLeavesState ==
    /\ \A p \in Rejectable :
          upc[p] = "done" =>
             /\ resp[p].code = 400
             /\ uid[p] = 0
             /\ \A i \in DOMAIN users : users[i] # resp[p].user
    /\ NoCreateInFlight => nextID = Cardinality(Created \ Rejectable) + 1

\* C12: the chunks of a file are dispatched under the numbers 1, 2, ... in
\* the order of the chunk list, without gap or repeat, up to N, the number of
\* chunks the file produced; and the chunk list follows the source: chunk i
\* is the span of a matching node whose start offset is not greater than
\* that of the node of chunk i+1, also when one lies inside the other.
C12_NumberedInByteOrder ==
    /\ \A j \in DOMAIN calls :
          /\ calls[j].index =
                1 + Cardinality({k \in 1..(j - 1) : calls[k].file = calls[j].file})
          /\ calls[j].index <= calls[j].total
    /\ \A e \in Range(readLog) :
          (e.err = "nil" /\ ~(pc = "chunks" /\ curFile = e.file)) =>
             {calls[j].index : j \in CallsOf(e.file)} = 1..e.matches
    /\ (pc \in {"chunks", "extracted"} /\ retErr = "nil") =>
          LET M == Matching(parsed, nodeType) IN
          /\ Len(chunks) = Cardinality(M)
          /\ pc = "chunks" => \A c \in Range(calls) :
                                c.file = curFile => c.total = Len(chunks)
          /\ \E f \in [DOMAIN chunks -> M] :
                /\ \A i, j \in DOMAIN chunks : i # j => f[i] # f[j]
                /\ \A i \in DOMAIN chunks :
                      chunks[i] = Slice(parsed.src, parsed.nodes[f[i]].start,
                                        parsed.nodes[f[i]].end)
                /\ \A i \in 1..(Len(chunks) - 1) :
                      parsed.nodes[f[i]].start <= parsed.nodes[f[i + 1]].start

C12_Witness ==
    /\ pc = "chunks"
    /\ idx = 1
    /\ Len(chunks) = 2
    /\ \E m, n \in Matching(parsed, nodeType) : Inside(parsed, m, n)
    /\ calls[Len(calls)].index = 1
    /\ \E c \in Range(calls) : c.file # curFile /\ c.index = 2

\* C13: a chunk whose prompt could not be built (the template did not parse
\* or did not execute) gets no chat request and no section; the loop goes on
\* to the next chunk of the file, which builds its prompt by a reviewChunk
\* call of its own; and the run does not end because of it.
C13_TemplateErrorAbortsChunkOnly ==
    /\ \A j \in DOMAIN calls :
          LET c == calls[j] IN
          ~c.rendered =>
             /\ c.chat = "none"
             /\ ~c.partial
             /\ \A s \in Range(report) :
                   ~(s.path = Join(repoRoot, c.file) /\ s.index = c.index)
             /\ c.index < c.total =>
                   IF j < Len(calls)
                      THEN /\ calls[j + 1].file = c.file
                           /\ calls[j + 1].index = c.index + 1
                      ELSE pc = "chunks" /\ curFile = c.file /\ idx = c.index
             /\ (pc = "chunks" /\ curFile = c.file) => idx >= c.index
    /\ (pc \in {"returned", "exit"} /\ \E c \in Range(calls) : ~c.rendered) =>
          Finished \/ TraversalError

C13_Witness ==
    /\ pc = "exit"
    /\ exitCode = 0
    /\ \E j \in DOMAIN calls :
          /\ ~calls[j].rendered
          /\ j < Len(calls)
          /\ calls[j + 1].file = calls[j].file
          /\ calls[j + 1].rendered
          /\ calls[j + 1].chat = "ok"
          /\ \E s \in Range(report) :
                s.path = Join(repoRoot, calls[j].file) /\ s.index = calls[j].index + 1

\* C14: nothing is tried twice: no chunk is handed to reviewChunk more than
\* once, each reviewChunk call makes one chat call when its prompt rendered
\* and none otherwise, whether that call succeeds or fails, and the loop
\* never stands on or before a chunk already dispatched.
C14_NoRetry ==
    /\ \A j, k \in DOMAIN calls :
          (calls[j].file = calls[k].file /\ calls[j].index = calls[k].index) => j = k
    /\ \A c \in Range(calls) :
          /\ c.rendered <=> c.chat \in {"ok", "err"}
          /\ (pc = "chunks" /\ curFile = c.file) => idx >= c.index
    /\ \A e \in Range(readLog) :
          Cardinality({j \in CallsOf(e.file) : calls[j].chat # "none"}) <= e.matches

C14_Witness ==
    /\ pc = "exit"
    /\ \E j \in DOMAIN calls :
          /\ calls[j].chat = "err"
          /\ j < Len(calls)
          /\ calls[j + 1].file = calls[j].file
          /\ calls[j + 1].chat = "ok"
    /\ \E c \in Range(calls) : c.chat = "err" /\ c.index = c.total

\* C15: every section is headed with the path of its file, the position i
\* of its chunk in the file's chunk list and the number N of chunks the file
\* produced, failed ones counted: it is the section of a successful call i
\* of N, the sections of one file stand in increasing order of i under the
\* same N, and a failed chunk's number is missing while N stays.
C15_SectionHeading ==
    /\ \A s \in Range(report) :
          /\ s.index \in 1..s.total
          /\ \E c \in Range(calls) :
                /\ c.chat = "ok"
                /\ s.path = Join(repoRoot, c.file)
                /\ s.index = c.index
                /\ s.total = c.total
                /\ \E e \in Range(readLog) :
                      e.file = c.file /\ e.err = "nil" /\ e.matches = s.total
    /\ \A i, j \in DOMAIN report :
          (i < j /\ report[i].path = report[j].path) =>
             /\ report[i].index < report[j].index
             /\ report[i].total = report[j].total
    /\ \A c \in Range(calls) :
          c.chat # "ok" =>
             \A s \in Range(report) :
                s.path = Join(repoRoot, c.file) =>
                   s.index # c.index /\ s.total = c.total

C15_Witness ==
    /\ Finished
    /\ \E c \in Range(calls) :
          /\ c.chat # "ok"
          /\ c.index = 1
          /\ \E s \in Range(report) :
                s.path = Join(repoRoot, c.file) /\ s.index = 2 /\ s.total = 2
    /\ \E i \in DOMAIN report :
          /\ i < Len(report)
          /\ report[i].path = report[i + 1].path
          /\ report[i].index = 1
          /\ report[i + 1].index = 2

====
